---- MODULE Spec2Model ----
(***************************************************************************)
(* The record store of tools-memory: the tool_records table, the           *)
(* ToolsMemoryDB operations on it (createOrAppend, getByWorkflowRunId,     *)
(* query, updateByWorkflowRunId, deleteByWorkflowRunId, cleanup, getStats),*)
(* the /records routes that call them, and the life of the singleton       *)
(* instance (getDB, the auto-cleanup timer, closeDB).                      *)
(*                                                                         *)
(* Node runs every handler to completion and better-sqlite3 is             *)
(* synchronous, so each handler is one atomic action.                      *)
(***************************************************************************)
EXTENDS Integers, Sequences, FiniteSets, TLC

VARIABLES
    rows,    \* the tool_records table: a set of rows
    clock,   \* the wall clock read by new Date(), in minutes
    nextId,  \* the serial number of the next POST or PUT; uuidv4() gives an id
             \* never given before, here the serial number of the POST
    hist,    \* per workflow_run_id: the record values POSTed since the row was created
    ret,     \* the last handler that ran: its name, arguments and return value
             \* (for cleanup also the clock it read, the rows each step deleted
             \* and whether the handler that ran before it was a cleanup; for a
             \* DELETE the row that went; for a POST what the handler before it
             \* did to the run's record)
    dbInstance,    \* dbInstance is not null
    cleanupTimer,  \* the setInterval timer of the instance last constructed is armed
    dbOpen         \* the database connection of that instance is open

vars == <<rows, clock, nextId, hist, ret, dbInstance, cleanupTimer, dbOpen>>

----------------------------------------------------------------------------
(* Bounds of the model. *)

\* The clock starts here and stops at MaxClock; 9 -> 10 changes the number of
\* significant digits of the timestamp.
StartClock == 8
MaxClock == 10
\* The POST and PUT requests served, at most.
MaxWrites == 3

\* The workflow_run_id values requests carry.
Keys == {"k1", "k2"}

----------------------------------------------------------------------------
(* Configuration. *)

\* CLEANUP_CONFIG.maxRecords, set through MAX_RECORDS (1000 when unset).
maxRecords == 1
\* CLEANUP_CONFIG.maxAgeMinutes, set through MAX_AGE_MINUTES (30 when unset).
maxAgeMinutes == 1
DEFAULT_LIMIT == 50
MAX_LIMIT == 500

----------------------------------------------------------------------------
(* JavaScript values, tagged by type. An object is the ordered list of its *)
(* members.                                                                *)

Undefined == [t |-> "undefined"]
Null == [t |-> "null"]
Num(n) == [t |-> "number", n |-> n]
\* A string is the sequence of its characters.
Str(s) == [t |-> "string", s |-> s]
Arr(a) == [t |-> "array", a |-> a]
Obj(o) == [t |-> "object", o |-> o]
Member(k, v) == [k |-> k, v |-> v]

\* Array.isArray
IsArray(v) == v.t = "array"

\* 'context' in v, for an object v
HasMember(v, k) == \E i \in 1..Len(v.o) : v.o[i].k = k

\* v[k], for an object v that has the member
GetMember(v, k) == v.o[CHOOSE i \in 1..Len(v.o) : v.o[i].k = k].v

----------------------------------------------------------------------------
(* JSON text is a sequence of tokens: punctuation, null, a digit, or a     *)
(* character between two quote tokens.                                     *)

Digits == <<"0", "1", "2", "3", "4", "5", "6", "7", "8", "9">>

RECURSIVE JSONstringify(_)
RECURSIVE StringifyElems(_, _)
RECURSIVE StringifyMembers(_, _)

StringifyElems(a, i) ==
    IF i > Len(a) THEN <<>>
    ELSE (IF i > 1 THEN <<",">> ELSE <<>>)
         \o JSONstringify(a[i]) \o StringifyElems(a, i + 1)

StringifyMembers(o, i) ==
    IF i > Len(o) THEN <<>>
    ELSE (IF i > 1 THEN <<",">> ELSE <<>>)
         \o <<"\"", o[i].k, "\"", ":">>
         \o JSONstringify(o[i].v) \o StringifyMembers(o, i + 1)

JSONstringify(v) ==
    CASE v.t = "null" -> <<"null">>
      [] v.t = "number" -> <<Digits[v.n + 1]>>
      [] v.t = "string" -> <<"\"">> \o v.s \o <<"\"">>
      [] v.t = "array" -> <<"[">> \o StringifyElems(v.a, 1) \o <<"]">>
      [] v.t = "object" -> <<"{">> \o StringifyMembers(v.o, 1) \o <<"}">>

Drop(s, n) == SubSeq(s, n + 1, Len(s))

RECURSIVE ParseValue(_)
RECURSIVE ParseElems(_, _)
RECURSIVE ParseMembers(_, _)
RECURSIVE ParseString(_, _)

\* After the opening quote: the characters up to the closing quote.
ParseString(toks, acc) ==
    IF Head(toks) = "\"" THEN [v |-> Str(acc), rest |-> Tail(toks)]
    ELSE ParseString(Tail(toks), Append(acc, Head(toks)))

\* After "[" or an element: the elements left, up to and including "]".
ParseElems(toks, acc) ==
    IF Head(toks) = "]" THEN [v |-> Arr(acc), rest |-> Tail(toks)]
    ELSE LET body == IF Head(toks) = "," THEN Tail(toks) ELSE toks
             e == ParseValue(body)
         IN  ParseElems(e.rest, Append(acc, e.v))

\* After "{" or a member: the members left, up to and including "}".
ParseMembers(toks, acc) ==
    IF Head(toks) = "}" THEN [v |-> Obj(acc), rest |-> Tail(toks)]
    ELSE LET body == IF Head(toks) = "," THEN Tail(toks) ELSE toks
             \* body is: quote, key, quote, colon, value
             m == ParseValue(Drop(body, 4))
         IN  ParseMembers(m.rest, Append(acc, Member(body[2], m.v)))

ParseValue(toks) ==
    CASE Head(toks) = "null" -> [v |-> Null, rest |-> Tail(toks)]
      [] Head(toks) = "\"" -> ParseString(Tail(toks), <<>>)
      [] Head(toks) = "[" -> ParseElems(Tail(toks), <<>>)
      [] Head(toks) = "{" -> ParseMembers(Tail(toks), <<>>)
      [] OTHER ->
           [v |-> Num((CHOOSE i \in 1..Len(Digits) : Digits[i] = Head(toks)) - 1),
            rest |-> Tail(toks)]

JSONparse(toks) == ParseValue(toks).v

----------------------------------------------------------------------------
(* Timestamps. Date.toISOString() gives a fixed-width text, most           *)
(* significant digit first; SQLite compares TEXT left to right.            *)

toISOString(t) == <<Digits[(t \div 10) + 1], Digits[(t % 10) + 1]>>

CharCode(c) == CHOOSE i \in 1..Len(Digits) : Digits[i] = c

RECURSIVE TextLess(_, _)
TextLess(a, b) ==
    IF b = <<>> THEN FALSE
    ELSE IF a = <<>> THEN TRUE
    ELSE IF Head(a) # Head(b) THEN CharCode(Head(a)) < CharCode(Head(b))
    ELSE TextLess(Tail(a), Tail(b))

TextLeq(a, b) == ~ TextLess(b, a)

----------------------------------------------------------------------------
(* The tool_records table and the statements run against it. A row is      *)
(* [id, workflow_run_id, record, created_at, updated_at]; record holds     *)
(* JSON text, the two timestamps hold toISOString() text.                  *)

\* rowToRecord: the ToolRecord of a row
rowToRecord(row) ==
    [id |-> row.id,
     workflow_run_id |-> row.workflow_run_id,
     record |-> JSONparse(IF row.record = <<>> THEN <<"{", "}">> ELSE row.record),
     created_at |-> row.created_at,
     updated_at |-> row.updated_at]

\* SELECT * FROM tool_records WHERE workflow_run_id = ?
getByWorkflowRunId(tbl, workflowRunId) ==
    IF \E r \in tbl : r.workflow_run_id = workflowRunId
    THEN rowToRecord(CHOOSE r \in tbl : r.workflow_run_id = workflowRunId)
    ELSE Null

\* SELECT * FROM tool_records WHERE id = ?
getById(tbl, id) ==
    IF \E r \in tbl : r.id = id
    THEN rowToRecord(CHOOSE r \in tbl : r.id = id)
    ELSE Null

\* id is the PRIMARY KEY and workflow_run_id is UNIQUE: an INSERT that
\* breaks either is refused.
InsertAllowed(tbl, row) ==
    \A r \in tbl : r.id # row.id /\ r.workflow_run_id # row.workflow_run_id

\* Faulty variant: no WHERE clause, every row is written.
UpdateStmtNoWhere(tbl, text, now, workflowRunId) ==
    {[r EXCEPT !.record = text, !.updated_at = now] : r \in tbl}

\* Faulty variant: INSERT OR REPLACE, a row is written whether or not the
\* run has one.
UpdateStmtUpsert(tbl, text, now, workflowRunId) ==
    IF \E r \in tbl : r.workflow_run_id = workflowRunId
    THEN {IF r.workflow_run_id = workflowRunId
          THEN [r EXCEPT !.record = text, !.updated_at = now]
          ELSE r : r \in tbl}
    ELSE tbl \cup {[id |-> 0, workflow_run_id |-> workflowRunId, record |-> text,
                    created_at |-> now, updated_at |-> now]}

\* Faulty variant: created_at is set as well.
UpdateStmtTouchesCreated(tbl, text, now, workflowRunId) ==
    {IF r.workflow_run_id = workflowRunId
     THEN [r EXCEPT !.record = text, !.updated_at = now, !.created_at = now]
     ELSE r : r \in tbl}

\* UPDATE tool_records SET record = ?, updated_at = ? WHERE workflow_run_id = ?
UpdateStmt(tbl, text, now, workflowRunId) ==
    {IF r.workflow_run_id = workflowRunId
     THEN [r EXCEPT !.record = text, !.updated_at = now]
     ELSE r : r \in tbl}

\* Faulty variant: the row is kept, emptied, as a tombstone.
DeleteStmtTombstone(tbl, workflowRunId) ==
    {IF r.workflow_run_id = workflowRunId THEN [r EXCEPT !.record = <<>>] ELSE r : r \in tbl}

\* DELETE FROM tool_records WHERE workflow_run_id = ?
DeleteStmt(tbl, workflowRunId) ==
    {r \in tbl : r.workflow_run_id # workflowRunId}

----------------------------------------------------------------------------
(* createOrAppend *)

\* Faulty variant: a stored value that is not an array is dropped.
newRecordsUncoerced(existing, record) ==
    LET currentRecords ==
            IF IsArray(existing.record) THEN existing.record.a
            ELSE <<>>
    IN  Arr(Append(currentRecords, record))

\* Faulty variant: the new record is put first.
newRecordsPrepended(existing, record) ==
    LET currentRecords ==
            IF IsArray(existing.record) THEN existing.record.a
            ELSE <<existing.record>>
    IN  Arr(<<record>> \o currentRecords)

\* The array written back when the run already has a row.
newRecords(existing, record) ==
    LET currentRecords ==
            IF IsArray(existing.record) THEN existing.record.a
            ELSE <<existing.record>>
    IN  Arr(Append(currentRecords, record))

\* Faulty variant: the first record is stored bare, not as an array.
NewRowBare(id, input, now) ==
    [id |-> id,
     workflow_run_id |-> input.workflow_run_id,
     record |-> JSONstringify(input.record),
     created_at |-> now,
     updated_at |-> now]

\* The row inserted when the run has none.
NewRow(id, input, now) ==
    [id |-> id,
     workflow_run_id |-> input.workflow_run_id,
     record |-> JSONstringify(Arr(<<input.record>>)),
     created_at |-> now,
     updated_at |-> now]

\* Faulty variant: an append returns the record read before the write.
createOrAppendStale(tbl, input, now, id) ==
    LET existing == getByWorkflowRunId(tbl, input.workflow_run_id)
    IN  IF existing # Null
        THEN [tbl |-> UpdateStmt(tbl, JSONstringify(newRecords(existing, input.record)),
                                 now, input.workflow_run_id),
              record |-> existing,
              isNew |-> FALSE,
              threw |-> FALSE]
        ELSE [tbl |-> tbl \cup {NewRow(id, input, now)},
              record |-> getById(tbl \cup {NewRow(id, input, now)}, id),
              isNew |-> TRUE,
              threw |-> FALSE]

\* Faulty variant: no lookup, and a table without its constraints: every
\* submission inserts a row.
createOrAppendAlwaysInsert(tbl, input, now, id) ==
    [tbl |-> tbl \cup {NewRow(id, input, now)},
     record |-> rowToRecord(NewRow(id, input, now)),
     isNew |-> TRUE,
     threw |-> FALSE]

\* The table after the call and what the call returns; threw when the
\* INSERT is refused.
createOrAppend(tbl, input, now, id) ==
    LET existing == getByWorkflowRunId(tbl, input.workflow_run_id)
    IN  IF existing # Null
        THEN LET after == UpdateStmt(tbl, JSONstringify(newRecords(existing, input.record)),
                                     now, input.workflow_run_id)
             IN  [tbl |-> after,
                  record |-> getByWorkflowRunId(after, input.workflow_run_id),
                  isNew |-> FALSE,
                  threw |-> FALSE]
        ELSE IF InsertAllowed(tbl, NewRow(id, input, now))
        THEN LET after == tbl \cup {NewRow(id, input, now)}
             IN  [tbl |-> after,
                  record |-> getById(after, id),
                  isNew |-> TRUE,
                  threw |-> FALSE]
        ELSE [tbl |-> tbl, record |-> Null, isNew |-> TRUE, threw |-> TRUE]

\* createOrAppend when the table is changed between its lookup (line 67)
\* and its write (lines 81, 93) by another connection to the database file:
\* the lookup reads tbl, the write and the re-read work on mid.
createOrAppendInterleaved(tbl, mid, input, now, id) ==
    LET existing == getByWorkflowRunId(tbl, input.workflow_run_id)
    IN  IF existing # Null
        THEN LET after == UpdateStmt(mid, JSONstringify(newRecords(existing, input.record)),
                                     now, input.workflow_run_id)
             IN  [tbl |-> after,
                  record |-> getByWorkflowRunId(after, input.workflow_run_id),
                  isNew |-> FALSE,
                  threw |-> FALSE]
        ELSE IF InsertAllowed(mid, NewRow(id, input, now))
        THEN LET after == mid \cup {NewRow(id, input, now)}
             IN  [tbl |-> after,
                  record |-> getById(after, id),
                  isNew |-> TRUE,
                  threw |-> FALSE]
        ELSE [tbl |-> mid, record |-> Null, isNew |-> TRUE, threw |-> TRUE]

\* Faulty variant: the record is stored as submitted.
recordToStoreWhole(record) == record

\* router.post('/'): a record that is an object with a context member is
\* stored as that member's value.
recordToStore(record) ==
    IF /\ record.t \in {"object", "array", "null"}    \* typeof record === 'object'
       /\ record # Null
       /\ record.t = "object" /\ HasMember(record, "context")
    THEN GetMember(record, "context")
    ELSE record

----------------------------------------------------------------------------
(* updateByWorkflowRunId, deleteByWorkflowRunId *)

\* Faulty variant: the new record is wrapped in an array, as a POST's is.
updateByWorkflowRunIdWrapped(tbl, workflowRunId, input, now) ==
    IF getByWorkflowRunId(tbl, workflowRunId) = Null
    THEN [tbl |-> tbl, record |-> Null]
    ELSE LET after == UpdateStmt(tbl, JSONstringify(Arr(<<input.record>>)), now, workflowRunId)
         IN  [tbl |-> after, record |-> getByWorkflowRunId(after, workflowRunId)]

\* The table after the call and the ToolRecord (or null) it returns.
updateByWorkflowRunId(tbl, workflowRunId, input, now) ==
    IF getByWorkflowRunId(tbl, workflowRunId) = Null
    THEN [tbl |-> tbl, record |-> Null]
    ELSE LET after == UpdateStmt(tbl, JSONstringify(input.record), now, workflowRunId)
         IN  [tbl |-> after, record |-> getByWorkflowRunId(after, workflowRunId)]

\* updateByWorkflowRunId when the table is changed between its lookup
\* (line 181) and its write (line 192) by another connection: the lookup
\* reads tbl, the write and the re-read work on mid.
updateByWorkflowRunIdInterleaved(tbl, mid, workflowRunId, input, now) ==
    IF getByWorkflowRunId(tbl, workflowRunId) = Null
    THEN [tbl |-> mid, record |-> Null]
    ELSE LET after == UpdateStmt(mid, JSONstringify(input.record), now, workflowRunId)
         IN  [tbl |-> after, record |-> getByWorkflowRunId(after, workflowRunId)]

\* Faulty variant: result.changes >= 0.
deleteByWorkflowRunIdAlways(tbl, workflowRunId) ==
    LET after == DeleteStmt(tbl, workflowRunId)
    IN  [tbl |-> after, deleted |-> Cardinality(tbl) - Cardinality(after) >= 0]

\* The table after the call and whether a row went (result.changes > 0).
deleteByWorkflowRunId(tbl, workflowRunId) ==
    LET after == DeleteStmt(tbl, workflowRunId)
    IN  [tbl |-> after, deleted |-> Cardinality(tbl) - Cardinality(after) > 0]

----------------------------------------------------------------------------
(* cleanup *)

\* cutoffDate.setMinutes(cutoffDate.getMinutes() - maxAgeMinutes), as text
cutoffISO(now) == toISOString(now - maxAgeMinutes)

\* Faulty variant: the age of a row is taken from its last mutation.
DeleteByAgeStmtByUpdated(tbl, cutoff) == {r \in tbl : TextLess(r.updated_at, cutoff)}

\* Faulty variant: one pass deletes a single expired row.
DeleteByAgeStmtOne(tbl, cutoff) ==
    LET expired == {r \in tbl : TextLess(r.created_at, cutoff)}
    IN  IF expired = {} THEN {} ELSE {CHOOSE r \in expired : TRUE}

\* Faulty variant: a row created exactly at the cutoff goes too.
DeleteByAgeStmtInclusive(tbl, cutoff) == {r \in tbl : TextLeq(r.created_at, cutoff)}

\* DELETE FROM tool_records WHERE created_at < ? : the rows it deletes
DeleteByAgeStmt(tbl, cutoff) == {r \in tbl : TextLess(r.created_at, cutoff)}

Min(a, b) == IF a < b THEN a ELSE b

\* SELECT id FROM tool_records ORDER BY created_at ASC LIMIT ? : the sets of
\* rows it may select; rows with equal created_at come in any order.
OldestRows(tbl, n) ==
    {D \in SUBSET tbl :
        /\ Cardinality(D) = Min(n, Cardinality(tbl))
        /\ \A d \in D, r \in tbl \ D : TextLeq(d.created_at, r.created_at)}

\* Faulty variant: one row too many is kept.
deleteCountShort(currentCount) == currentCount - maxRecords - 1

\* The number of rows the count step deletes.
deleteCount(currentCount) == currentCount - maxRecords

\* Faulty variant: the count step runs before the age step.
cleanupCountFirst(tbl, now) ==
    LET currentCount == Cardinality(tbl)
        choices == IF currentCount > maxRecords
                   THEN OldestRows(tbl, deleteCount(currentCount))
                   ELSE {{}}
    IN  {LET byAge == DeleteByAgeStmt(tbl \ byCount, cutoffISO(now))
         IN  [tbl |-> (tbl \ byCount) \ byAge,
              result |-> [deletedByAge |-> Cardinality(byAge),
                          deletedByCount |-> Cardinality(byCount),
                          totalDeleted |-> Cardinality(byAge) + Cardinality(byCount),
                          remainingRecords |-> Cardinality((tbl \ byCount) \ byAge)],
              byAge |-> byAge,
              byCount |-> byCount]
         : byCount \in choices}

\* The outcomes of one pass: the table after it, the CleanupResult, and the
\* rows each of the two DELETE statements removed.
cleanup(tbl, now) ==
    LET byAge == DeleteByAgeStmt(tbl, cutoffISO(now))
        afterAge == tbl \ byAge
        currentCount == Cardinality(afterAge)
        choices == IF currentCount > maxRecords
                   THEN OldestRows(afterAge, deleteCount(currentCount))
                   ELSE {{}}
    IN  {[tbl |-> afterAge \ byCount,
          result |-> [deletedByAge |-> Cardinality(byAge),
                      deletedByCount |-> Cardinality(byCount),
                      totalDeleted |-> Cardinality(byAge) + Cardinality(byCount),
                      remainingRecords |-> Cardinality(afterAge \ byCount)],
          byAge |-> byAge,
          byCount |-> byCount]
         : byCount \in choices}

----------------------------------------------------------------------------
(* The instance: constructor, startAutoCleanup, stopAutoCleanup, close,    *)
(* getDB, closeDB.  An instance is [dbInstance, cleanupTimer, open]: whether*)
(* the module variable refers to it, whether its timer is armed and        *)
(* whether its connection is open.                                         *)

NoInstance == [dbInstance |-> FALSE, cleanupTimer |-> FALSE, open |-> FALSE]

\* Faulty variant: the timer is armed without a first pass.
startAutoCleanupNoPass(tbl, now) == {[tbl |-> tbl, cleanupTimer |-> TRUE]}

\* One pass, then setInterval: the tables the pass may leave, the timer armed.
startAutoCleanup(tbl, now) ==
    {[tbl |-> pass.tbl, cleanupTimer |-> TRUE] : pass \in cleanup(tbl, now)}

\* constructor: open the database, create the table if absent (the rows of
\* the file stay), start the auto cleanup.
ToolsMemoryDB(tbl, now) ==
    {[tbl |-> started.tbl,
      inst |-> [dbInstance |-> TRUE, cleanupTimer |-> started.cleanupTimer, open |-> TRUE]]
     : started \in startAutoCleanup(tbl, now)}

\* getDB: the instance, constructed when there is none.
getDB(inst, tbl, now) ==
    IF inst.dbInstance THEN {[tbl |-> tbl, inst |-> inst]}
    ELSE ToolsMemoryDB(tbl, now)

\* clearInterval when the timer is armed
stopAutoCleanup(inst) ==
    IF inst.cleanupTimer THEN [inst EXCEPT !.cleanupTimer = FALSE] ELSE inst

\* Faulty variant: the connection is closed and the timer left armed.
closeTimerLeft(inst) == [inst EXCEPT !.open = FALSE]

\* close: stopAutoCleanup, then db.close() (which does nothing to a closed
\* connection).
close(inst) == [stopAutoCleanup(inst) EXCEPT !.open = FALSE]

\* Faulty variant: the instance is forgotten without being closed.
closeDBNoClose(inst) ==
    [inst |-> [inst EXCEPT !.dbInstance = FALSE], threw |-> FALSE]

\* Faulty variant: close is called without looking at dbInstance.
closeDBUnchecked(inst) ==
    IF inst.dbInstance
    THEN [inst |-> [close(inst) EXCEPT !.dbInstance = FALSE], threw |-> FALSE]
    ELSE [inst |-> inst, threw |-> TRUE]

\* closeDB: close the instance there is and forget it.
closeDB(inst) ==
    IF inst.dbInstance
    THEN [inst |-> [close(inst) EXCEPT !.dbInstance = FALSE], threw |-> FALSE]
    ELSE [inst |-> inst, threw |-> FALSE]

----------------------------------------------------------------------------
(* query, getStats *)

\* JavaScript truthiness, as in  if (x)  and  x || y
Truthy(v) ==
    CASE v.t = "undefined" -> FALSE
      [] v.t = "null" -> FALSE
      [] v.t = "number" -> v.n # 0
      [] v.t = "string" -> v.s # <<>>
      [] OTHER -> TRUE

\* Faulty variant: created_at > ? for the start of the range.
whereClauseExclusive(filters, r) ==
    /\ Truthy(filters.workflow_run_id) => <<r.workflow_run_id>> = filters.workflow_run_id.s
    /\ Truthy(filters.start_time) => TextLess(filters.start_time.s, r.created_at)
    /\ Truthy(filters.end_time) => TextLeq(r.created_at, filters.end_time.s)

\* The WHERE clause built from the filters.
whereClause(filters, r) ==
    /\ Truthy(filters.workflow_run_id) => <<r.workflow_run_id>> = filters.workflow_run_id.s
    /\ Truthy(filters.start_time) => TextLeq(filters.start_time.s, r.created_at)
    /\ Truthy(filters.end_time) => TextLeq(r.created_at, filters.end_time.s)

\* ORDER BY created_at DESC: the orders the rows may come in.
OrderByCreatedAtDesc(tbl) ==
    {ord \in [1..Cardinality(tbl) -> tbl] :
        /\ \A i, j \in DOMAIN ord : i # j => ord[i] # ord[j]
        /\ \A i, j \in DOMAIN ord : i < j => TextLeq(ord[j].created_at, ord[i].created_at)}

\* Faulty variant: the offset is taken as the rank of the first row.
LimitOffsetFromRank(ord, limit, offset) ==
    LET off == IF offset < 1 THEN 1 ELSE offset
        last == IF limit < 0 THEN Len(ord) ELSE Min(off + limit - 1, Len(ord))
    IN  SubSeq(ord, off, last)

\* LIMIT ? OFFSET ? : a negative LIMIT is no limit, a negative OFFSET is 0.
LimitOffset(ord, limit, offset) ==
    LET off == IF offset < 0 THEN 0 ELSE offset
        last == IF limit < 0 THEN Len(ord) ELSE Min(off + limit, Len(ord))
    IN  SubSeq(ord, off + 1, last)

\* Math.min(filters.limit || DEFAULT_LIMIT, MAX_LIMIT)
effectiveLimit(filters) ==
    Min(IF Truthy(filters.limit) THEN filters.limit.n ELSE DEFAULT_LIMIT, MAX_LIMIT)

\* filters.offset || 0
effectiveOffset(filters) ==
    IF Truthy(filters.offset) THEN filters.offset.n ELSE 0

\* The PaginatedResponses the call may return.
query(tbl, filters) ==
    LET matching == {r \in tbl : whereClause(filters, r)}
        limit == effectiveLimit(filters)
        offset == effectiveOffset(filters)
    IN  {[data |-> [i \in DOMAIN page |-> rowToRecord(page[i])],
          total |-> Cardinality(matching),
          limit |-> limit,
          offset |-> offset]
         : page \in {LimitOffset(ord, limit, offset)
                        : ord \in OrderByCreatedAtDesc(matching)}}

getStats(tbl) ==
    [totalRecords |-> Cardinality(tbl),
     oldestRecord |->
        IF tbl = {} THEN Null
        ELSE Str((CHOOSE r \in tbl : \A q \in tbl : TextLeq(r.created_at, q.created_at)).created_at),
     newestRecord |->
        IF tbl = {} THEN Null
        ELSE Str((CHOOSE r \in tbl : \A q \in tbl : TextLeq(q.created_at, r.created_at)).created_at)]

----------------------------------------------------------------------------
(* The values requests carry. *)

PNum == Num(1)
PCtx == Obj(<<Member("a", Num(1)), Member("context", Obj(<<Member("b", Num(2))>>))>>)

\* The record of a POST body and of a PUT body.
PostPayloads == {PNum, PCtx}
PutPayloads == {PNum, PCtx}

NoHist == [subs |-> <<>>, replaced |-> FALSE]

----------------------------------------------------------------------------
\* The process has started on an empty database file; getDB has not been called.
Init ==
    /\ rows = {}
    /\ clock = StartClock
    /\ nextId = 1
    /\ hist = [k \in Keys |-> NoHist]
    /\ ret = [op |-> "init"]
    /\ dbInstance = FALSE
    /\ cleanupTimer = FALSE
    /\ dbOpen = FALSE

\* The instance as the three variables hold it.
Instance == [dbInstance |-> dbInstance, cleanupTimer |-> cleanupTimer, open |-> dbOpen]

InstanceBecomes(inst) ==
    /\ dbInstance' = inst.dbInstance
    /\ cleanupTimer' = inst.cleanupTimer
    /\ dbOpen' = inst.open

\* A handler goes on with the instance getDB() gave it when the connection
\* of that instance is open; on a closed one its first statement throws.
Usable(got) == {g \in got : g.inst.open}

\* The run's submissions while its row lives; a PUT ends the record of them.
HistAfter(tbl, h) ==
    [k \in Keys |-> IF \E r \in tbl : r.workflow_run_id = k THEN h[k] ELSE NoHist]

\* The rows of the run that the handler that ran last deleted.
Gone(k) ==
    IF ret.op = "deleteByWorkflowRunId" /\ ret.key = k THEN ret.gone
    ELSE IF ret.op \in {"cleanup", "autoCleanup"} /\ ~ ret.threw
    THEN {r \in ret.byAge \cup ret.byCount : r.workflow_run_id = k}
    ELSE {}

\* What the handler that ran last did to the run's record: removed it on
\* request, swept it, or neither.  (A POST records "init" instead when the
\* constructor's pass, run by the POST itself, swept the record.)
LastDeleted(k) ==
    IF Gone(k) = {} THEN "none"
    ELSE IF ret.op = "deleteByWorkflowRunId" THEN "remove"
    ELSE "sweep"

\* POST /records
PostRecords(k, record) ==
    /\ record # Undefined
    /\ nextId <= MaxWrites
    /\ \E g \in Usable(getDB(Instance, rows, clock)) :
       \E out \in {createOrAppend(g.tbl, [workflow_run_id |-> k, record |-> recordToStore(record)],
                                  toISOString(clock), nextId)} :
        /\ rows' = out.tbl
        /\ nextId' = nextId + 1
        /\ hist' = IF HistAfter(g.tbl, hist)[k].replaced THEN HistAfter(g.tbl, hist)
                   ELSE [HistAfter(g.tbl, hist) EXCEPT ![k].subs = Append(@, record)]
        /\ ret' = [op |-> "createOrAppend", key |-> k, arg |-> record,
                   record |-> out.record, isNew |-> out.isNew, threw |-> out.threw,
                   after |-> IF \E r \in rows \ g.tbl : r.workflow_run_id = k
                             THEN "init" ELSE LastDeleted(k)]
        /\ InstanceBecomes(g.inst)
    /\ UNCHANGED clock

\* Faulty variant: reading a record refreshes its updated_at.
GetRecordTouching(k) ==
    /\ \E g \in Usable(getDB(Instance, rows, clock)) :
        /\ rows' = {IF r.workflow_run_id = k
                    THEN [r EXCEPT !.updated_at = toISOString(clock)]
                    ELSE r : r \in g.tbl}
        /\ hist' = HistAfter(g.tbl, hist)
        /\ ret' = [op |-> "getByWorkflowRunId", key |-> k,
                   record |-> getByWorkflowRunId(g.tbl, k), threw |-> FALSE]
        /\ InstanceBecomes(g.inst)
    /\ UNCHANGED <<clock, nextId>>

\* GET /records/:workflow_run_id
GetRecord(k) ==
    /\ \E g \in Usable(getDB(Instance, rows, clock)) :
        /\ rows' = g.tbl
        /\ hist' = HistAfter(g.tbl, hist)
        /\ ret' = [op |-> "getByWorkflowRunId", key |-> k,
                   record |-> getByWorkflowRunId(g.tbl, k), threw |-> FALSE]
        /\ InstanceBecomes(g.inst)
    /\ UNCHANGED <<clock, nextId>>

\* PUT /records/:workflow_run_id
PutRecord(k, record) ==
    /\ record # Undefined
    /\ nextId <= MaxWrites
    /\ \E g \in Usable(getDB(Instance, rows, clock)) :
       \E out \in {updateByWorkflowRunId(g.tbl, k, [record |-> record], toISOString(clock))} :
        /\ nextId' = nextId + 1
        /\ rows' = out.tbl
        /\ hist' = IF out.record = Null THEN HistAfter(g.tbl, hist)
                   ELSE [HistAfter(g.tbl, hist) EXCEPT ![k] = [subs |-> <<>>, replaced |-> TRUE]]
        /\ ret' = [op |-> "updateByWorkflowRunId", key |-> k, arg |-> record,
                   record |-> out.record, threw |-> FALSE]
        /\ InstanceBecomes(g.inst)
    /\ UNCHANGED clock

\* DELETE /records/:workflow_run_id
DeleteRecord(k) ==
    /\ \E g \in Usable(getDB(Instance, rows, clock)) :
       \E out \in {deleteByWorkflowRunId(g.tbl, k)} :
        /\ rows' = out.tbl
        /\ hist' = HistAfter(out.tbl, hist)
        /\ ret' = [op |-> "deleteByWorkflowRunId", key |-> k,
                   deleted |-> out.deleted, gone |-> g.tbl \ out.tbl, threw |-> FALSE]
        /\ InstanceBecomes(g.inst)
    /\ UNCHANGED <<clock, nextId>>

\* POST /records/cleanup
Cleanup ==
    /\ \E g \in Usable(getDB(Instance, rows, clock)) :
       \E out \in cleanup(g.tbl, clock) :
        /\ rows' = out.tbl
        /\ hist' = HistAfter(out.tbl, hist)
        /\ ret' = [op |-> "cleanup", now |-> clock, result |-> out.result,
                   byAge |-> out.byAge, byCount |-> out.byCount, threw |-> FALSE,
                   prev |-> IF ret.op = "cleanup"
                            THEN [op |-> "cleanup", now |-> ret.now]
                            ELSE [op |-> "other"]]
        /\ InstanceBecomes(g.inst)
    /\ UNCHANGED <<clock, nextId>>

\* The setInterval callback of startAutoCleanup: it runs while the timer is
\* armed; cleanup throws when the connection is closed.
TimerFires ==
    /\ cleanupTimer
    /\ IF dbOpen
       THEN \E out \in cleanup(rows, clock) :
               /\ rows' = out.tbl
               /\ hist' = HistAfter(out.tbl, hist)
               /\ ret' = [op |-> "autoCleanup", now |-> clock, result |-> out.result,
                          byAge |-> out.byAge, byCount |-> out.byCount, threw |-> FALSE]
       ELSE /\ ret' = [op |-> "autoCleanup", now |-> clock, threw |-> TRUE]
            /\ UNCHANGED <<rows, hist>>
    /\ UNCHANGED <<clock, nextId, dbInstance, cleanupTimer, dbOpen>>

\* closeDB(), as gracefulShutdown calls it once the server has closed.  The
\* database file stays: a getDB() after it, in this process or in the next
\* one started on the file, constructs an instance on the rows left.
CloseDB ==
    /\ \E out \in {closeDB(Instance)} :
        /\ InstanceBecomes(out.inst)
        /\ ret' = [op |-> "closeDB", closed |-> dbInstance, threw |-> out.threw]
    /\ UNCHANGED <<rows, clock, nextId, hist>>

\* The filters of GET /records.
NoFilter == [workflow_run_id |-> Undefined, start_time |-> Undefined,
             end_time |-> Undefined, limit |-> Undefined, offset |-> Undefined]

\* A time the filters name: one minute after the clock starts, so that records
\* are created before it, at it and after it.
MidTime == Str(toISOString(StartClock + 1))

\* The filters the requests of the model carry.
QueryFilters ==
    {NoFilter,
     [NoFilter EXCEPT !.workflow_run_id = Str(<<"k1">>), !.limit = Num(1)],
     [NoFilter EXCEPT !.limit = Num(1), !.offset = Num(1)],
     [NoFilter EXCEPT !.limit = Num(-1)],
     [NoFilter EXCEPT !.start_time = MidTime, !.end_time = MidTime]}

\* GET /records
QueryRecords(filters) ==
    /\ \E g \in Usable(getDB(Instance, rows, clock)) :
       \E out \in query(g.tbl, filters) :
        /\ rows' = g.tbl
        /\ hist' = HistAfter(g.tbl, hist)
        /\ ret' = [op |-> "query", filters |-> filters, result |-> out, threw |-> FALSE]
        /\ InstanceBecomes(g.inst)
    /\ UNCHANGED <<clock, nextId>>

\* GET /records/stats
GetStats ==
    /\ \E g \in Usable(getDB(Instance, rows, clock)) :
        /\ rows' = g.tbl
        /\ hist' = HistAfter(g.tbl, hist)
        /\ ret' = [op |-> "getStats", result |-> getStats(g.tbl), threw |-> FALSE]
        /\ InstanceBecomes(g.inst)
    /\ UNCHANGED <<clock, nextId>>

\* Time passes.
Tick ==
    /\ clock < MaxClock
    /\ clock' = clock + 1
    /\ UNCHANGED <<rows, nextId, hist, ret, dbInstance, cleanupTimer, dbOpen>>

\* The tables a deleteByWorkflowRunId of the run, or a cleanup pass that
\* deletes the run's row, leaves when it runs on another connection to the
\* database file (the handlers of one process run one at a time, each to
\* its end, so none of them comes between the lookup and the write of
\* another).
DeletedMeanwhile(tbl, k, now) ==
    {deleteByWorkflowRunId(tbl, k).tbl}
        \cup {pass.tbl : pass \in {c \in cleanup(tbl, now) :
                                        getByWorkflowRunId(c.tbl, k) = Null}}

\* POST /records whose createOrAppend finds the run's row and has it deleted
\* before its UPDATE; left is the table the deletion left.
RacedPostRecords(k, record) ==
    /\ record # Undefined
    /\ nextId <= MaxWrites
    /\ \E g \in Usable(getDB(Instance, rows, clock)) :
        /\ getByWorkflowRunId(g.tbl, k) # Null
        /\ \E mid \in DeletedMeanwhile(g.tbl, k, clock) :
           \E out \in {createOrAppendInterleaved(g.tbl, mid,
                             [workflow_run_id |-> k, record |-> recordToStore(record)],
                             toISOString(clock), nextId)} :
            /\ rows' = out.tbl
            /\ nextId' = nextId + 1
            /\ hist' = HistAfter(out.tbl, hist)
            /\ ret' = [op |-> "createOrAppend", key |-> k, arg |-> record,
                       record |-> out.record, isNew |-> out.isNew, threw |-> out.threw,
                       after |-> "none", left |-> mid]
            /\ InstanceBecomes(g.inst)
    /\ UNCHANGED clock

\* PUT /records/:workflow_run_id whose updateByWorkflowRunId finds the run's
\* row and has it deleted before its UPDATE.
RacedPutRecord(k, record) ==
    /\ record # Undefined
    /\ nextId <= MaxWrites
    /\ \E g \in Usable(getDB(Instance, rows, clock)) :
        /\ getByWorkflowRunId(g.tbl, k) # Null
        /\ \E mid \in DeletedMeanwhile(g.tbl, k, clock) :
           \E out \in {updateByWorkflowRunIdInterleaved(g.tbl, mid, k, [record |-> record],
                                                        toISOString(clock))} :
            /\ rows' = out.tbl
            /\ nextId' = nextId + 1
            /\ hist' = HistAfter(out.tbl, hist)
            /\ ret' = [op |-> "updateByWorkflowRunId", key |-> k, arg |-> record,
                       record |-> out.record, threw |-> FALSE, left |-> mid]
            /\ InstanceBecomes(g.inst)
    /\ UNCHANGED clock

Next ==
    \/ Tick
    \/ \E k \in Keys, record \in PostPayloads : PostRecords(k, record)
    \/ \E k \in Keys : GetRecord(k)
    \/ \E k \in Keys, record \in PutPayloads : PutRecord(k, record)
    \/ \E k \in Keys : DeleteRecord(k)
    \/ Cleanup
    \/ TimerFires
    \/ CloseDB
    \/ \E filters \in QueryFilters : QueryRecords(filters)
    \/ GetStats

Spec == Init /\ [][Next]_vars

\* setInterval runs its callback again and again while the timer is armed.
FairSpec == Spec /\ WF_vars(TimerFires)

\* getDB().stopAutoCleanup(): the method is public, no code of the repository
\* calls it but close().
StopAutoCleanup ==
    /\ \E g \in getDB(Instance, rows, clock) :
        /\ rows' = g.tbl
        /\ hist' = HistAfter(g.tbl, hist)
        /\ InstanceBecomes(stopAutoCleanup(g.inst))
    /\ ret' = [op |-> "stopAutoCleanup", threw |-> FALSE]
    /\ UNCHANGED <<clock, nextId>>

\* getDB().close(): public as well, called by closeDB() alone in the
\* repository.  dbInstance goes on referring to the closed instance.
Close ==
    /\ \E g \in getDB(Instance, rows, clock) :
        /\ rows' = g.tbl
        /\ hist' = HistAfter(g.tbl, hist)
        /\ InstanceBecomes(close(g.inst))
    /\ ret' = [op |-> "close", threw |-> FALSE]
    /\ UNCHANGED <<clock, nextId>>

\* The routes' calls of the facade.
FacadeCalls == {"createOrAppend", "getByWorkflowRunId", "updateByWorkflowRunId",
                "deleteByWorkflowRunId", "cleanup", "query", "getStats"}

\* A handler whose getDB() gives an instance with a closed connection: the
\* facade call throws at its first statement and the route answers 500.
OnClosedHandle ==
    /\ dbInstance /\ ~ dbOpen
    /\ \E call \in FacadeCalls : ret' = [op |-> "closed", call |-> call, threw |-> TRUE]
    /\ UNCHANGED <<rows, clock, nextId, hist, dbInstance, cleanupTimer, dbOpen>>

\* The handlers, and the public methods of the instance called by a user of
\* the module in any order.
ApiNext ==
    \/ Next
    \/ StopAutoCleanup
    \/ Close
    \/ OnClosedHandle

ApiSpec == Init /\ [][ApiNext]_vars

\* The handlers, and the two writing handlers with a deletion by another
\* connection between their lookup and their write.
RaceNext ==
    \/ Next
    \/ \E k \in Keys, record \in PostPayloads : RacedPostRecords(k, record)
    \/ \E k \in Keys, record \in PutPayloads : RacedPutRecord(k, record)

RaceSpec == Init /\ [][RaceNext]_vars

----------------------------------------------------------------------------
(* Properties.  Those of an operation are stated of the operation on the   *)
(* instance there is (dbInstance): a handler that finds none constructs    *)
(* one first, and the constructor runs a cleanup pass of its own.          *)

\* The run has a row.
Present(tbl, k) == \E r \in tbl : r.workflow_run_id = k

\* The row of a run that has one.
RowOf(tbl, k) == CHOOSE r \in tbl : r.workflow_run_id = k

\* The minute a timestamp text stands for.
MinuteOf(text) == (CharCode(text[1]) - 1) * 10 + (CharCode(text[2]) - 1)

\* The context rule as the specification words it: an object that has a
\* context field stands for the value of that field, anything else for itself.
ContextRule(p) ==
    IF p.t = "object" /\ (\E i \in DOMAIN p.o : p.o[i].k = "context")
    THEN (p.o[CHOOSE i \in DOMAIN p.o : p.o[i].k = "context"]).v
    ELSE p

\* C1 (append accumulates): while a run's row lives and has only been written
\* by create_or_append, its stored payload is the sequence of the N >= 1
\* payloads submitted since it was created, each under the context rule, in
\* submission order.
C1_AppendAccumulates ==
    \A k \in Keys :
        Present(rows, k) /\ ~ hist[k].replaced =>
            /\ Len(hist[k].subs) >= 1
            /\ getByWorkflowRunId(rows, k).record =
                   Arr([i \in 1..Len(hist[k].subs) |-> ContextRule(hist[k].subs[i])])

\* Two different payloads were appended in turn, one of them with a context.
C1_Witness ==
    \E k \in Keys :
        /\ Present(rows, k) /\ ~ hist[k].replaced
        /\ hist[k].subs = <<PCtx, PNum>>
        /\ ret.op = "createOrAppend" /\ ret.key = k


\* C2 (retention age cutoff): a cleanup pass at time now deletes, in its age
\* step, exactly the records created strictly before now - maxAgeMinutes, and
\* deletedByAge is their number; a record created at the cutoff or later is
\* not deleted by the age step.
C2_AgeCutoff ==
    [][dbInstance /\ Cleanup =>
        LET older == {r \in rows : MinuteOf(r.created_at) < clock - maxAgeMinutes}
        IN  /\ ret'.byAge = older
            /\ older \cap rows' = {}
            /\ ret'.result.deletedByAge = Cardinality(older)]_vars

\* A pass found one record older than the cutoff and one created exactly at
\* the cutoff: it deleted the first and kept the second.
C2_Witness ==
    /\ ret.op = "cleanup"
    /\ ret.result.deletedByAge = 1 /\ ret.result.deletedByCount = 0
    /\ \E r \in rows : MinuteOf(r.created_at) = ret.now - maxAgeMinutes

\* C3 (retention count cap): with R the records left by the age step, a pass
\* deletes in its count step the R - maxRecords oldest when R > maxRecords and
\* none otherwise, deletedByCount is their number, the records kept are the
\* newest, and the store ends with at most maxRecords records.
C3_CountCap ==
    [][dbInstance /\ Cleanup =>
        LET kept == {r \in rows : MinuteOf(r.created_at) >= clock - maxAgeMinutes}
            R == Cardinality(kept)
        IN  /\ R > maxRecords =>
                /\ ret'.result.deletedByCount = R - maxRecords
                /\ Cardinality(ret'.byCount) = R - maxRecords
                /\ ret'.byCount \subseteq kept
                /\ rows' = kept \ ret'.byCount
                /\ Cardinality(rows') = maxRecords
                /\ \A d \in ret'.byCount, r \in rows' :
                       MinuteOf(d.created_at) <= MinuteOf(r.created_at)
            /\ R <= maxRecords =>
                /\ ret'.result.deletedByCount = 0
                /\ rows' = kept
            /\ Cardinality(rows') <= maxRecords]_vars

\* A pass deleted a record for the count cap alone, and the record it kept is
\* strictly newer.
C3_Witness ==
    /\ ret.op = "cleanup"
    /\ ret.result.deletedByAge = 0 /\ ret.result.deletedByCount = 1
    /\ \E d \in ret.byCount, r \in rows : MinuteOf(d.created_at) < MinuteOf(r.created_at)

\* C4 (replace is total): when the run has a row, after replace(k, X) the
\* payload get(k) returns is X itself, whatever was stored before.
C4_ReplaceTotal ==
    [][\A k \in Keys, X \in PutPayloads :
        dbInstance /\ ret'.op = "updateByWorkflowRunId" /\ Present(rows, k) /\ PutRecord(k, X) =>
            /\ getByWorkflowRunId(rows', k) # Null
            /\ getByWorkflowRunId(rows', k).record = X
            /\ ret'.record = getByWorkflowRunId(rows', k)]_vars

\* A stored sequence was replaced by a value that is not a sequence.
C4_Witness ==
    /\ ret.op = "updateByWorkflowRunId" /\ ret.record # Null
    /\ ret.arg = PNum
    /\ hist[ret.key].replaced
    /\ getByWorkflowRunId(rows, ret.key).record = ret.arg

\* C5 as stated (idempotent cleanup): a cleanup that follows a cleanup, with
\* no write between the two, reports no deletion and leaves the store as it is.
C5_Original ==
    [][ret.op = "cleanup" /\ ret'.op = "cleanup" /\ Cleanup =>
        /\ ret'.result.deletedByAge = 0
        /\ ret'.result.deletedByCount = 0
        /\ ret'.result.totalDeleted = 0
        /\ rows' = rows]_vars

\* C5 as amended: a cleanup that follows a cleanup, with no write between the
\* two, deletes nothing for the count cap and deletes only records that have
\* fallen behind the age cutoff since the first pass; when the clock has not
\* advanced between the two it reports no deletion and leaves the store as it is.
C5_IdempotentCleanup ==
    [][ret.op = "cleanup" /\ ret'.op = "cleanup" /\ Cleanup =>
        /\ ret'.result.deletedByCount = 0
        /\ rows \ rows' = {r \in rows : MinuteOf(r.created_at) < clock - maxAgeMinutes}
        /\ \A r \in rows \ rows' : MinuteOf(r.created_at) >= ret.now - maxAgeMinutes
        /\ ret.now = clock =>
            /\ ret'.result.deletedByAge = 0
            /\ ret'.result.totalDeleted = 0
            /\ rows' = rows]_vars

\* A second pass ran right after a first one, at the same clock reading, with
\* a record in the store, and deleted nothing.
C5_Witness ==
    /\ ret.op = "cleanup"
    /\ ret.prev.op = "cleanup" /\ ret.prev.now = ret.now
    /\ ret.result.totalDeleted = 0
    /\ rows # {}

\* C6 (cleanup report): for every pass totalDeleted = deletedByAge +
\* deletedByCount, remainingRecords is the number of records when the pass
\* ends, the count before the pass less totalDeleted is remainingRecords, the
\* two steps delete disjoint sets of records, and a record older than the
\* cutoff is counted in deletedByAge only.
C6_CleanupReport ==
    [][dbInstance /\ ret'.op = "cleanup" /\ Cleanup =>
        /\ ret'.result.totalDeleted = ret'.result.deletedByAge + ret'.result.deletedByCount
        /\ ret'.result.remainingRecords = Cardinality(rows')
        /\ Cardinality(rows) - ret'.result.totalDeleted = ret'.result.remainingRecords
        /\ ret'.result.deletedByAge = Cardinality(ret'.byAge)
        /\ ret'.result.deletedByCount = Cardinality(ret'.byCount)
        /\ ret'.byAge \cap ret'.byCount = {}
        /\ rows \ rows' = ret'.byAge \cup ret'.byCount
        /\ \A r \in rows :
              MinuteOf(r.created_at) < clock - maxAgeMinutes =>
                  r \in ret'.byAge /\ r \notin ret'.byCount]_vars

\* A pass found more than maxRecords records, one of them older than the
\* cutoff: it counted that one in deletedByAge and none in deletedByCount.
C6_Witness ==
    /\ ret.op = "cleanup"
    /\ ret.result.deletedByAge = 1 /\ ret.result.deletedByCount = 0
    /\ ret.result.totalDeleted = 1
    /\ ret.result.remainingRecords + ret.result.totalDeleted > maxRecords

\* C7 (unknown key): for a run with no record, get returns absence, replace
\* returns absence and remove returns false; none fails and none changes the
\* store.
C7_UnknownKey ==
    [][\A k \in Keys :
        dbInstance /\ ~ Present(rows, k) =>
            /\ ret'.op = "getByWorkflowRunId" /\ GetRecord(k) =>
                  ret'.record = Null /\ ~ ret'.threw /\ rows' = rows
            /\ \A X \in PutPayloads :
                  ret'.op = "updateByWorkflowRunId" /\ PutRecord(k, X) =>
                      ret'.record = Null /\ ~ ret'.threw /\ rows' = rows
            /\ ret'.op = "deleteByWorkflowRunId" /\ DeleteRecord(k) =>
                  ret'.deleted = FALSE /\ ~ ret'.threw /\ rows' = rows]_vars

\* A remove of a run with no record answered false while the other run had one.
C7_Witness ==
    /\ ret.op = "deleteByWorkflowRunId" /\ ret.deleted = FALSE
    /\ ~ Present(rows, ret.key)
    /\ rows # {}

\* C8 (creation or append): create_or_append(k, p) answers isNew exactly when k
\* had no record; then it adds one record, whose payload is [p] under the
\* context rule and whose created_at equals its updated_at, and otherwise it
\* adds and removes no record.
C8_CreateAppendSplit ==
    [][\A k \in Keys, p \in PostPayloads :
        dbInstance /\ ret'.op = "createOrAppend" /\ PostRecords(k, p) =>
            /\ ret'.isNew = ~ Present(rows, k)
            /\ ~ Present(rows, k) =>
                /\ rows \subseteq rows'
                /\ Cardinality(rows') = Cardinality(rows) + 1
                /\ Present(rows', k)
                /\ getByWorkflowRunId(rows', k).record = Arr(<<ContextRule(p)>>)
                /\ RowOf(rows', k).created_at = RowOf(rows', k).updated_at
            /\ Present(rows, k) =>
                /\ Cardinality(rows') = Cardinality(rows)
                /\ {r.id : r \in rows'} = {r.id : r \in rows}
                /\ {r.workflow_run_id : r \in rows'} = {r.workflow_run_id : r \in rows}]_vars

\* A creation happened while the other run already had a record.
C8_Witness ==
    /\ ret.op = "createOrAppend" /\ ret.isNew
    /\ Cardinality(rows) = 2
    /\ ret.arg = PCtx

\* C9 (canonical record returned): create_or_append(k, p) returns the record
\* stored under k when it returns: present, p (under the context rule) its
\* last element, updated_at the time of this write.
C9_ReturnsStored ==
    [][\A k \in Keys, p \in PostPayloads :
        ret'.op = "createOrAppend" /\ PostRecords(k, p) =>
            /\ ret'.record # Null
            /\ Present(rows', k)
            /\ ret'.record = rowToRecord(RowOf(rows', k))
            /\ IsArray(ret'.record.record)
            /\ Len(ret'.record.record.a) >= 1
            /\ ret'.record.record.a[Len(ret'.record.record.a)] = ContextRule(p)
            /\ MinuteOf(ret'.record.updated_at) = clock]_vars

\* An append, later than the creation, returned a two-element payload.
C9_Witness ==
    /\ ret.op = "createOrAppend" /\ ~ ret.isNew
    /\ Len(ret.record.record.a) = 2
    /\ ret.record.updated_at # ret.record.created_at

\* The requests of C10: a limit within 1..MAX_LIMIT, an offset that is absent
\* or not negative, with and without a run filter.
PageFilters ==
    {[NoFilter EXCEPT !.workflow_run_id = w, !.limit = Num(L), !.offset = o] :
        w \in {Undefined, Str(<<"k1">>)},
        L \in 1..2,
        o \in {Undefined} \cup {Num(O) : O \in 0..2}}

\* The page is ranks O+1 .. O+L of the matching records by created_at
\* descending, and total is the number of matching records.
PageOK(tbl, f, out) ==
    LET matching == {r \in tbl : f.workflow_run_id = Undefined
                                    \/ <<r.workflow_run_id>> = f.workflow_run_id.s}
        total == Cardinality(matching)
        L == f.limit.n
        O == IF f.offset = Undefined THEN 0 ELSE f.offset.n
        n == IF total - O < 0 THEN 0 ELSE IF total - O < L THEN total - O ELSE L
    IN  /\ out.total = total
        /\ Len(out.data) = n
        /\ \A i \in 1..n :
              /\ \E r \in matching : /\ r.id = out.data[i].id
                                     /\ out.data[i] = rowToRecord(r)
              /\ \A j \in 1..n : i # j => out.data[i].id # out.data[j].id
              /\ Cardinality({r \in matching : MinuteOf(r.created_at)
                                  > MinuteOf(out.data[i].created_at)}) <= O + i - 1
              /\ Cardinality({r \in matching : MinuteOf(r.created_at)
                                  >= MinuteOf(out.data[i].created_at)}) >= O + i

\* C10 (pagination): for every store content, limit L and offset O, list
\* returns exactly the records ranked O+1 .. O+L by created_at descending among
\* the matching ones (fewer when they run out), and total is the number of
\* matching records whatever L and O.  Stated where a list request has just
\* been served: its response is such a page, and so is every response list
\* may give on that table for each L and O of PageFilters.
C10_Pagination ==
    ret.op = "query" =>
        /\ ret.filters \in PageFilters => PageOK(rows, ret.filters, ret.result)
        /\ \A f \in PageFilters : \A out \in query(rows, f) : PageOK(rows, f, out)

\* A list with limit 1 and offset 1 over two records returned the older one.
C10_Witness ==
    /\ ret.op = "query"
    /\ ret.filters.limit = Num(1) /\ ret.filters.offset = Num(1)
    /\ ret.result.total = 2
    /\ Len(ret.result.data) = 1
    /\ \E r \in rows : MinuteOf(r.created_at) > MinuteOf(ret.result.data[1].created_at)

\* C11 as stated (limit and offset normalisation): the limit list uses and
\* reports is the default when the request gives none or a non-positive one,
\* and the smaller of the requested limit and the maximum otherwise; list never
\* returns more rows than the maximum; an offset not given is 0.
C11_Original ==
    ret.op = "query" =>
        LET requested == ret.filters.limit
            expected == IF requested = Undefined \/ requested.n <= 0
                        THEN DEFAULT_LIMIT
                        ELSE Min(requested.n, MAX_LIMIT)
        IN  /\ ret.result.limit = expected
            /\ Len(ret.result.data) <= expected
            /\ Len(ret.result.data) <= MAX_LIMIT
            /\ ret.filters.offset = Undefined => ret.result.offset = 0

\* The requests of C12: with and without a run filter, a start and an end.
TimeFilters ==
    {[NoFilter EXCEPT !.workflow_run_id = w, !.start_time = s, !.end_time = e] :
        w \in {Undefined, Str(<<"k1">>)},
        s \in {Undefined, MidTime},
        e \in {Undefined, MidTime}}

\* The records that satisfy every filter the request gives.
Satisfying(tbl, f) ==
    {r \in tbl :
        /\ f.workflow_run_id # Undefined => <<r.workflow_run_id>> = f.workflow_run_id.s
        /\ f.start_time # Undefined => MinuteOf(r.created_at) >= MinuteOf(f.start_time.s)
        /\ f.end_time # Undefined => MinuteOf(r.created_at) <= MinuteOf(f.end_time.s)}

\* total counts, and (the limit allowing) data holds, exactly those records.
FilterOK(tbl, f, out) ==
    /\ out.total = Cardinality(Satisfying(tbl, f))
    /\ Len(out.data) = Cardinality(Satisfying(tbl, f))
    /\ {out.data[i] : i \in DOMAIN out.data} = {rowToRecord(r) : r \in Satisfying(tbl, f)}

\* C12 (list filtering): the rows list counts in total and returns are exactly
\* the records that satisfy every filter given at once: run equal to the given
\* one, created_at >= start and created_at <= end, both inclusive; a filter
\* not given restricts nothing.  Stated where a list request has just been
\* served: of its response, and of every response list may give on that table
\* for each request of TimeFilters.
C12_Filtering ==
    ret.op = "query" =>
        /\ ret.filters \in TimeFilters => FilterOK(rows, ret.filters, ret.result)
        /\ \A f \in TimeFilters : \A out \in query(rows, f) : FilterOK(rows, f, out)

\* A list with start = end returned the record created at that minute and
\* left out a record created at another.
C12_Witness ==
    /\ ret.op = "query"
    /\ ret.filters.start_time = MidTime /\ ret.filters.end_time = MidTime
    /\ ret.result.total = 1
    /\ Len(ret.result.data) = 1
    /\ ret.result.data[1].created_at = MidTime.s
    /\ Cardinality(rows) = 2

\* Payloads of every shape the context rule tells apart.
CtxPayloads ==
    {PNum, PCtx, Null,
     Obj(<<Member("a", Num(1))>>),
     Obj(<<Member("context", Null)>>),
     Obj(<<Member("context", Arr(<<Num(1)>>)), Member("a", Num(1))>>),
     Arr(<<Obj(<<Member("context", Num(1))>>)>>),
     Str(<<"context">>)}

\* C13 (context unwrapping): the element create_or_append stores for a payload
\* is the value of its context field when the payload is an object that has
\* one, and the payload itself otherwise, the same when it creates the record
\* and when it appends to it.  Stated of each create_or_append served, and of
\* what the same call would have stored for each payload of CtxPayloads.
C13_ContextUnwrapping ==
    [][\A k \in Keys, p \in PostPayloads :
        ret'.op = "createOrAppend" /\ PostRecords(k, p) =>
            /\ ret'.record.record.a[Len(ret'.record.record.a)] = ContextRule(p)
            /\ \A q \in CtxPayloads :
                  LET out == createOrAppend(rows, [workflow_run_id |-> k,
                                                   record |-> recordToStore(q)],
                                            toISOString(clock), nextId)
                  IN  out.record.record.a[Len(out.record.record.a)] = ContextRule(q)]_vars

\* A payload with a context was appended to a record created from one
\* without: the record's elements are the first payload and the context.
C13_Witness ==
    /\ ret.op = "createOrAppend" /\ ~ ret.isNew
    /\ ret.arg = PCtx
    /\ ret.record.record = Arr(<<PNum, GetMember(PCtx, "context")>>)

\* C14 (physical delete): remove(k) answers true exactly when k had a record,
\* takes that record and no other out of the store, and get(k) is then absent;
\* a cleanup pass takes the records it deletes out of the store likewise; and
\* the create_or_append(k, p) that comes next behaves as a first submission:
\* isNew, payload [p] under the context rule, an id the deleted record did
\* not have, created_at the time of this submission.
C14_PhysicalDelete ==
    [][/\ \A k \in Keys :
            dbInstance /\ ret'.op = "deleteByWorkflowRunId" /\ DeleteRecord(k) =>
                /\ ret'.deleted = Present(rows, k)
                /\ rows' = {r \in rows : r.workflow_run_id # k}
                /\ getByWorkflowRunId(rows', k) = Null
       /\ ret'.op \in {"cleanup", "autoCleanup"} /\ ~ ret'.threw =>
            \A r \in ret'.byAge \cup ret'.byCount :
                /\ r \notin rows'
                /\ getByWorkflowRunId(rows', r.workflow_run_id) = Null
       /\ \A k \in Keys, p \in PostPayloads :
            ret'.op = "createOrAppend" /\ Gone(k) # {} /\ PostRecords(k, p) =>
                /\ ret'.isNew
                /\ ret'.record.record = Arr(<<ContextRule(p)>>)
                /\ getByWorkflowRunId(rows', k) = ret'.record
                /\ \A r \in Gone(k) : ret'.record.id # r.id
                /\ MinuteOf(ret'.record.created_at) = clock
                /\ ret'.record.updated_at = ret'.record.created_at]_vars

\* A run's record was removed on request; the next submission for it, at a
\* later minute than the clock started, made a new record of one payload under
\* another id.
C14_Witness ==
    /\ ret.op = "createOrAppend" /\ ret.after = "remove" /\ ret.isNew
    /\ Len(ret.record.record.a) = 1
    /\ ret.record.id > 1
    /\ MinuteOf(ret.record.created_at) > StartClock

\* C15 (a retention pass at initialisation): the handler that constructs the
\* instance runs one cleanup pass first and arms the timer, so the operation it
\* then serves sees no record older than the age cutoff and at most maxRecords
\* records (a get sees exactly what one pass leaves, a create_or_append for a
\* run whose record was over age finds none); while there is an instance its
\* timer is armed and its connection open, every firing of the timer runs a
\* pass, and an armed timer goes on to fire.
C15_InitPass ==
    /\ [][~ dbInstance /\ dbInstance' =>
            LET kept == {r \in rows : MinuteOf(r.created_at) >= clock - maxAgeMinutes}
                left == Min(Cardinality(kept), maxRecords)
            IN  /\ cleanupTimer' /\ dbOpen'
                /\ \A r \in rows' : MinuteOf(r.created_at) >= clock - maxAgeMinutes
                /\ ret'.op \in {"getByWorkflowRunId", "query", "getStats"} =>
                      /\ rows' \subseteq kept
                      /\ Cardinality(rows') = left
                      /\ \A d \in kept \ rows', r \in rows' :
                             MinuteOf(d.created_at) <= MinuteOf(r.created_at)
                /\ ret'.op = "getByWorkflowRunId" =>
                      ret'.record = getByWorkflowRunId(rows', ret'.key)
                /\ ret'.op = "getStats" => ret'.result.totalRecords = left
                /\ ret'.op = "createOrAppend" =>
                      /\ Cardinality(rows') <= maxRecords + (IF ret'.isNew THEN 1 ELSE 0)
                      /\ ~ Present(kept, ret'.key) => ret'.isNew]_vars
    /\ [](dbInstance => cleanupTimer /\ dbOpen)
    /\ [][ret'.op = "autoCleanup" /\ TimerFires =>
            /\ ~ ret'.threw
            /\ rows' \subseteq rows
            /\ \A r \in rows' : MinuteOf(r.created_at) >= clock - maxAgeMinutes
            /\ Cardinality(rows') <= maxRecords]_vars
    /\ (cleanupTimer /\ ret.op # "autoCleanup") ~> (ret.op = "autoCleanup" \/ ~ cleanupTimer)

\* The first request after an instance was constructed on a file that held
\* the over-age record of a run was a submission for that run: it found the
\* record swept and created a new one.
C15_Witness ==
    /\ ret.op = "createOrAppend" /\ ret.after = "init" /\ ret.isNew
    /\ dbInstance /\ cleanupTimer /\ dbOpen
    /\ \A r \in rows : MinuteOf(r.created_at) >= clock - maxAgeMinutes

\* C16 (shutdown order): closing cancels the timer and then closes the
\* connection: when the timer has been cancelled the connection is still
\* open, after closeDB neither is left, at no time is a timer armed on a
\* closed connection, and no firing of the timer finds the connection closed.
C16_ShutdownOrder ==
    /\ [](cleanupTimer => dbOpen)
    /\ [](dbInstance =>
            /\ ~ stopAutoCleanup(Instance).cleanupTimer
            /\ stopAutoCleanup(Instance).open
            /\ close(Instance) = [stopAutoCleanup(Instance) EXCEPT !.open = FALSE])
    /\ [][ret'.op = "closeDB" /\ CloseDB => ~ cleanupTimer' /\ ~ dbOpen']_vars
    /\ [][ret'.op = "autoCleanup" /\ TimerFires => dbOpen /\ ~ ret'.threw]_vars

\* An instance that held a record was shut down: its timer is cancelled and
\* its connection closed.
C16_Witness ==
    /\ ret.op = "closeDB" /\ ret.closed
    /\ ~ cleanupTimer /\ ~ dbOpen
    /\ rows # {}

\* C17 (shutdown is idempotent): closeDB never fails; the first call leaves
\* the timer cancelled, the connection closed and no instance; a call when
\* there is no instance (a second call, or a call before any getDB) changes
\* nothing; the timer stays cancelled and the connection closed for as long
\* as no instance is constructed again; closing an instance twice leaves it
\* as closing it once does.
C17_ShutdownIdempotent ==
    /\ [][ret'.op = "closeDB" /\ CloseDB =>
            /\ ~ ret'.threw
            /\ ~ dbInstance' /\ ~ cleanupTimer' /\ ~ dbOpen'
            /\ ret'.closed = dbInstance
            /\ UNCHANGED <<rows, clock, nextId, hist>>
            /\ ~ dbInstance => UNCHANGED <<dbInstance, cleanupTimer, dbOpen>>]_vars
    /\ [](~ dbInstance => ~ cleanupTimer /\ ~ dbOpen)
    /\ [](close(close(Instance)) = close(Instance))

\* closeDB was called again after it had shut an instance down.
C17_Witness ==
    /\ ret.op = "closeDB" /\ ~ ret.closed /\ ~ ret.threw
    /\ ~ dbInstance /\ ~ cleanupTimer /\ ~ dbOpen
    /\ rows # {}

\* C18 (one record per run, one per id): in every reachable state no two
\* records have the same workflow_run_id and no two have the same id; no
\* submission is refused for breaking either.
C18_Uniqueness ==
    /\ \A r, q \in rows :
          r # q => r.workflow_run_id # q.workflow_run_id /\ r.id # q.id
    /\ ret.op = "createOrAppend" => ~ ret.threw

\* Both runs have a record, one of them created after every other write the
\* model allows.
C18_Witness ==
    /\ Cardinality(rows) = 2
    /\ nextId = MaxWrites + 1
    /\ ret.op = "createOrAppend" /\ ret.isNew /\ ret.record.id = MaxWrites

\* C19 (timestamps and identity): a record keeps its id, its run and its
\* created_at for as long as it is in the store, under every append and
\* replace; an append or a replace that finds the record sets its updated_at
\* to the time it runs and changes no other record; and in every state
\* updated_at >= created_at for every record.
C19_TimestampDiscipline ==
    /\ [][/\ \A r \in rows, q \in rows' :
               r.id = q.id =>
                   q.workflow_run_id = r.workflow_run_id /\ q.created_at = r.created_at
          /\ \A k \in Keys :
               /\ dbInstance /\ Present(rows, k)
               /\ \/ ret'.op = "createOrAppend" /\ \E p \in PostPayloads : PostRecords(k, p)
                  \/ ret'.op = "updateByWorkflowRunId" /\ \E X \in PutPayloads : PutRecord(k, X)
               => /\ Present(rows', k)
                  /\ RowOf(rows', k).id = RowOf(rows, k).id
                  /\ RowOf(rows', k).created_at = RowOf(rows, k).created_at
                  /\ MinuteOf(RowOf(rows', k).updated_at) = clock
                  /\ rows' \ {RowOf(rows', k)} = rows \ {RowOf(rows, k)}]_vars
    /\ [](\A r \in rows : /\ MinuteOf(r.updated_at) >= MinuteOf(r.created_at)
                           /\ TextLeq(r.created_at, r.updated_at))

\* A record was replaced at a later minute than it was created, while the
\* other run had a record too.
C19_Witness ==
    /\ ret.op = "updateByWorkflowRunId" /\ ret.record # Null
    /\ MinuteOf(ret.record.updated_at) > MinuteOf(ret.record.created_at)
    /\ MinuteOf(ret.record.updated_at) = clock
    /\ Cardinality(rows) = 2

\* C20 (lost update): when the record of k is deleted, by a cleanup pass or
\* by a remove, after createOrAppend(k, p) or updateByWorkflowRunId(k, X) has
\* read it and before its UPDATE, the UPDATE changes no row: the table is
\* left as the deletion left it, so k has no record again and every other
\* record is as it was; nothing is thrown, and what the call returns is the
\* absence of a record.
C20_LostUpdate ==
    [][\A k \in Keys :
          /\ "left" \in DOMAIN ret'
          /\ \/ \E p \in PostPayloads : RacedPostRecords(k, p)
             \/ \E X \in PutPayloads : RacedPutRecord(k, X)
          => /\ rows' = ret'.left
             /\ ~ Present(rows', k)
             /\ rows' \subseteq rows
             /\ ~ ret'.threw
             /\ ret'.record = Null
             /\ ret'.op = "createOrAppend" => ~ ret'.isNew]_vars

\* An append lost its record to a deletion that came between its lookup and
\* its write, while the record of the other run stayed.
C20_Witness ==
    /\ "left" \in DOMAIN ret
    /\ ret.op = "createOrAppend"
    /\ ret.left = rows /\ Cardinality(rows) = 1
    /\ \A r \in rows : r.workflow_run_id # ret.key

\* C21 (records expire whatever is done to them): a firing of the timer
\* deletes, by age, every record created before now - maxAgeMinutes, however
\* recently it was appended to or replaced; and whenever such a record is in
\* the store while the timer is armed, a state follows in which no such
\* record is left, or the timer has been stopped.
C21_Expiry ==
    /\ [][ret'.op = "autoCleanup" /\ TimerFires =>
            \A r \in rows :
                MinuteOf(r.created_at) < clock - maxAgeMinutes =>
                    r \in ret'.byAge /\ r \notin rows']_vars
    /\ (cleanupTimer /\ \E r \in rows : MinuteOf(r.created_at) < clock - maxAgeMinutes)
          ~> (~ cleanupTimer
                \/ \A r \in rows : MinuteOf(r.created_at) >= clock - maxAgeMinutes)

\* The timer swept, by age, a record that was appended to or replaced in the
\* very minute of the sweep.
C21_Witness ==
    /\ ret.op = "autoCleanup" /\ ~ ret.threw
    /\ \E r \in ret.byAge : /\ MinuteOf(r.updated_at) = ret.now
                             /\ MinuteOf(r.created_at) < ret.now - maxAgeMinutes

\* C22 (one handle, one timer, one lifetime), as claimed: in every state,
\* through every sequence of getDB, stopAutoCleanup, close and closeDB calls,
\* the timer is armed if and only if the connection is open.
C22_Original == cleanupTimer <=> dbOpen

\* C22 as the code has it: an instance is constructed only when no connection
\* is open and no timer armed, with its connection open and its timer armed
\* together (the call that made getDB construct it may then stop the timer
\* or close it); an open connection is that of the instance dbInstance refers
\* to, and an armed timer is the timer of an open connection; closeDB leaves
\* no instance, no open connection and no armed timer; and the only call
\* after which the timer is not armed while the connection is open is
\* stopAutoCleanup called on its own.
C22_SameLifetime ==
    /\ [](cleanupTimer => dbOpen)
    /\ [](dbOpen => dbInstance)
    /\ [][~ dbInstance /\ dbInstance' =>
            /\ ~ dbOpen /\ ~ cleanupTimer
            /\ ret'.op \notin {"stopAutoCleanup", "close"} => dbOpen' /\ cleanupTimer'
            /\ ret'.op = "stopAutoCleanup" => dbOpen' /\ ~ cleanupTimer'
            /\ ret'.op = "close" => ~ dbOpen' /\ ~ cleanupTimer']_vars
    /\ [][ret'.op = "closeDB" /\ CloseDB =>
            ~ dbInstance' /\ ~ dbOpen' /\ ~ cleanupTimer']_vars
    /\ [][(cleanupTimer <=> dbOpen) /\ ~ (cleanupTimer' <=> dbOpen') =>
            ret'.op = "stopAutoCleanup"]_vars
    /\ [][~ (cleanupTimer <=> dbOpen) /\ (cleanupTimer' <=> dbOpen') =>
            ret'.op \in {"close", "closeDB"}]_vars

\* A submission was appended by an instance whose timer had been stopped on
\* its own: its connection is open and no timer is armed.
C22_Witness ==
    /\ dbInstance /\ dbOpen /\ ~ cleanupTimer
    /\ ret.op = "createOrAppend" /\ ~ ret.isNew /\ ~ ret.threw

\* C23 (append after replace): when createOrAppend(k, p) finds the payload V
\* stored for k, the payload stored afterwards is an array: V with p (under
\* the context rule) added at its end when V is an array, and [V, p] when V
\* is not; p is its last element either way.
C23_AppendCoerces ==
    [][\A k \in Keys, p \in PostPayloads :
        dbInstance /\ ret'.op = "createOrAppend" /\ Present(rows, k) /\ PostRecords(k, p) =>
            LET V == getByWorkflowRunId(rows, k).record
                W == getByWorkflowRunId(rows', k).record
            IN  /\ IsArray(W)
                /\ IsArray(V) => W = Arr(Append(V.a, ContextRule(p)))
                /\ ~ IsArray(V) => W = Arr(<<V, ContextRule(p)>>)
                /\ W.a[Len(W.a)] = ContextRule(p)]_vars

\* A record replaced by an object (stored whole, context member and all) was
\* appended to: the object is the first of two elements.
C23_Witness ==
    /\ ret.op = "createOrAppend" /\ ~ ret.isNew /\ ~ ret.threw
    /\ hist[ret.key].replaced
    /\ ret.record.record = Arr(<<PCtx, ContextRule(ret.arg)>>)
    /\ getByWorkflowRunId(rows, ret.key).record = ret.record.record

\* C24 (reads are pure): getByWorkflowRunId, query and getStats, on the
\* instance there is, leave the table exactly as it was (every record, and
\* so their number), whether or not the run has a record and whether or not
\* the table is empty; they leave the instance and its timer alone too.
\* (The three are the calls of GetRecord, QueryRecords and GetStats, which
\* alone answer with these names.)
C24_ReadsPure ==
    [][/\ dbInstance
       /\ ret'.op \in {"getByWorkflowRunId", "query", "getStats"}
       /\ ret' # ret \/ rows' # rows
       => /\ rows' = rows
          /\ Cardinality(rows') = Cardinality(rows)
          /\ hist' = hist
          /\ UNCHANGED <<dbInstance, cleanupTimer, dbOpen>>
          /\ ~ ret'.threw]_vars

\* A lookup of a run that has no record was served while the other run had
\* one, which is still there.
C24_Witness ==
    /\ ret.op = "getByWorkflowRunId" /\ ret.record = Null
    /\ dbInstance
    /\ Cardinality(rows) = 1
    /\ \A r \in rows : r.workflow_run_id # ret.key /\ MinuteOf(r.updated_at) < clock

\* C25 (writes keep to their run and evict nothing): createOrAppend(k, _),
\* updateByWorkflowRunId(k, _) and deleteByWorkflowRunId(k), on the instance
\* there is, leave the records of every other run as they were: none is
\* changed, none removed, none added.
C25_WritesOwnKey ==
    [][/\ dbInstance
       /\ ret'.op \in {"createOrAppend", "updateByWorkflowRunId", "deleteByWorkflowRunId"}
       /\ ret' # ret \/ rows' # rows
       => {r \in rows' : r.workflow_run_id # ret'.key}
              = {r \in rows : r.workflow_run_id # ret'.key}]_vars

\* A creation left the store with more than maxRecords records, one of them
\* older than the age cutoff at the time of the creation.
C25_Witness ==
    /\ ret.op = "createOrAppend" /\ ret.isNew /\ ~ ret.threw
    /\ ret.after = "none"
    /\ Cardinality(rows) > maxRecords
    /\ \E r \in rows :
          /\ r.workflow_run_id # ret.key
          /\ MinuteOf(r.created_at) < MinuteOf(ret.record.created_at) - maxAgeMinutes

====
